---------------------------- MODULE Spec2Model ----------------------------
(***************************************************************************)
(* State-machine model of the churn pipeline: MLPipeline (orchestrator),   *)
(* ModelTrainer, ModelEvaluator and the BaseModel classifiers.             *)
(*                                                                         *)
(* Python objects are modelled by value: a dict is a sequence of [k, v]    *)
(* pairs in insertion order, a classifier is a heap cell addressed by an   *)
(* object id, None is the string "None" (names) or the id 0 (objects).     *)
(* Everything the external libraries decide (whether a fit or a predict    *)
(* raises, the metric values, the file contents) is an input chosen by the *)
(* environment from a small set.                                           *)
(***************************************************************************)
EXTENDS Integers, Sequences, FiniteSets, TLC

VARIABLES
    pc,                 \* position of MLPipeline.run: IDLE, a phase name, DONE or RAISED
    started,            \* phases started by the current run, in order
    completed,          \* phases of the current run that returned without raising
    ret,                \* what the last run() call gave its caller
    reran,              \* run() has been called a second time on this pipeline
    raw_data,           \* MLPipeline.raw_data
    cleaned_data,       \* MLPipeline.cleaned_data
    engineered_data,    \* MLPipeline.engineered_data
    split,              \* MLPipeline.X_train, X_test, y_train, y_test
    models,             \* MLPipeline.models: dict name -> object id
    trained_models,     \* MLPipeline.trained_models: dict name -> object id
    evaluation_results, \* MLPipeline.evaluation_results: dict name -> Metrics
    pipeline_results,   \* MLPipeline.pipeline_results
    run_written,        \* keys of pipeline_results assigned by the current run
    heap,               \* the classifier objects: sequence indexed by object id
    training_info,      \* ModelTrainer.training_info: dict model_name -> entry
    ev,                 \* ModelEvaluator: [evaluation_results, best_model]
    cleaner,            \* TelcoDataCleaner: [cleaning_report]
    fe,                 \* TelcoFeatureEngineer: [label_encoders, scaler, feature_info]
    returned,           \* content of the dict the last completed run() returned
    calls,              \* number of direct calls made by the caller
    last                \* record of the last direct call made by the caller

vars == <<pc, started, completed, ret, reran, raw_data, cleaned_data,
          engineered_data, split, models, trained_models, evaluation_results,
          pipeline_results, run_written, heap, training_info, ev, cleaner, fe,
          returned, calls, last>>

data_vars == <<cleaner, fe>>

pipeline_vars == <<pc, started, completed, ret, reran, raw_data, cleaned_data,
                   engineered_data, split, models, trained_models,
                   evaluation_results, pipeline_results, run_written>>

-----------------------------------------------------------------------------
(* Bounds of the model.                                                    *)

\* F1 scores are drawn from 0..MaxF1 (a scaled stand-in for [0, 1])
MaxF1 == 1

\* component calls a direct caller makes in one behaviour
MaxCalls == 2

-----------------------------------------------------------------------------
(* Python dict: insertion-ordered, assignment to a present key keeps its   *)
(* place.                                                                  *)

EmptyDict == <<>>

DictKeys(d) == [i \in 1..Len(d) |-> d[i].k]

DictKeySet(d) == {d[i].k : i \in 1..Len(d)}

DictHas(d, key) == \E i \in 1..Len(d) : d[i].k = key

DictGet(d, key) == d[CHOOSE i \in 1..Len(d) : d[i].k = key].v

DictGetOr(d, key, default) == IF DictHas(d, key) THEN DictGet(d, key) ELSE default

DictSet(d, key, value) ==
    IF DictHas(d, key)
    THEN [i \in 1..Len(d) |-> IF d[i].k = key THEN [k |-> key, v |-> value] ELSE d[i]]
    ELSE Append(d, [k |-> key, v |-> value])

None == "None"

NoObject == 0


-----------------------------------------------------------------------------
(* Feature matrices and label vectors, by shape: a DataFrame is its row     *)
(* count and its ordered column names, a Series its row count.             *)

DataFrame(n, cols) == [rows |-> n, columns |-> cols]

Series(n) == [rows |-> n]

\* pandas DataFrame.empty: any axis of length 0; Series.empty: no element
IsEmpty(X) == X.rows = 0 \/ ("columns" \in DOMAIN X /\ Len(X.columns) = 0)

-----------------------------------------------------------------------------
(* BaseModel and its three concrete subclasses.                            *)

\* a classifier that claims to be trained from construction
NewModelPretrained(name) ==
    [model_name |-> name, has_model |-> TRUE, is_trained |-> TRUE,
     feature_names |-> <<>>]

\* BaseModel.__init__ followed by the subclass constructor, which sets
\* self.model to the library estimator
NewModel(name) ==
    [model_name |-> name, has_model |-> TRUE, is_trained |-> FALSE,
     feature_names |-> <<>>]

LogisticRegressionModel == NewModel("LogisticRegression")

RandomForestModel == NewModel("RandomForest")

GradientBoostingModel == NewModel("GradientBoosting")

\* BaseModel.train without its row-count check
TrainInputErrorNoRowCheck(X, y) ==
    IF IsEmpty(X) \/ IsEmpty(y) THEN "empty" ELSE None

\* the two input checks at the head of BaseModel.train
TrainInputError(X, y) ==
    IF IsEmpty(X) \/ IsEmpty(y) THEN "empty"
    ELSE IF X.rows # y.rows THEN "mismatch"
    ELSE None

\* BaseModel.train: fit_raises is the library's answer to self.model.fit
train(m, X, y, fit_raises) ==
    IF TrainInputError(X, y) # None
    THEN [model |-> m, raised |-> TRUE, error |-> TrainInputError(X, y),
          fit_called |-> FALSE]
    ELSE IF fit_raises
    THEN [model |-> [m EXCEPT !.feature_names = X.columns],
          raised |-> TRUE, error |-> "fit", fit_called |-> TRUE]
    ELSE [model |-> [m EXCEPT !.feature_names = X.columns, !.is_trained = TRUE],
          raised |-> FALSE, error |-> None, fit_called |-> TRUE]

\* predict without the is_trained guard
PredictGuardErrorNoTrainedCheck(m) ==
    IF ~m.has_model THEN "not_initialized" ELSE None

\* the guards of BaseModel.predict and BaseModel.predict_proba
PredictGuardError(m) ==
    IF ~m.is_trained THEN "not_trained"
    ELSE IF ~m.has_model THEN "not_initialized"
    ELSE None

\* BaseModel.predict: impl_raises is the library's answer to self.model.predict
predict(m, impl_raises) ==
    IF PredictGuardError(m) # None
    THEN [raised |-> TRUE, error |-> PredictGuardError(m), value |-> None]
    ELSE IF impl_raises
    THEN [raised |-> TRUE, error |-> "predict", value |-> None]
    ELSE [raised |-> FALSE, error |-> None, value |-> "labels"]

\* BaseModel.predict_proba
predict_proba(m, impl_raises) ==
    IF PredictGuardError(m) # None
    THEN [raised |-> TRUE, error |-> PredictGuardError(m), value |-> None]
    ELSE IF impl_raises
    THEN [raised |-> TRUE, error |-> "predict_proba", value |-> None]
    ELSE [raised |-> FALSE, error |-> None, value |-> "probabilities"]

\* get_feature_importance: one entry per recorded feature name once trained
\* (all three variants expose a signal: coefficients or feature_importances_)
get_feature_importance(m) ==
    IF ~m.is_trained THEN EmptyDict
    ELSE [i \in 1..Len(m.feature_names) |-> [k |-> m.feature_names[i], v |-> "importance"]]

-----------------------------------------------------------------------------
(* ModelTrainer.                                                           *)

\* the TrainingInfo entries written by train_model (training_time is a clock
\* reading and carries no behaviour)
TrainingSuccess(X) ==
    [training_samples |-> X.rows, features_count |-> Len(X.columns), success |-> TRUE]

TrainingFailure(error) == [error |-> error, success |-> FALSE]

\* train_model whose except branch records the failure and omits the raise
train_model_swallows(ti, hp, id, X, y, fit_raises) ==
    LET r == train(hp[id], X, y, fit_raises)
        name == hp[id].model_name
    IN  [training_info |-> DictSet(ti, name,
                                   IF r.raised THEN TrainingFailure(r.error)
                                   ELSE TrainingSuccess(X)),
         heap |-> [hp EXCEPT ![id] = r.model],
         raised |-> FALSE, error |-> None, value |-> id,
         fit_called |-> r.fit_called]

\* ModelTrainer.train_model on object id: the try branch records success and
\* returns the model, the except branch records the failure and re-raises
train_model(ti, hp, id, X, y, fit_raises) ==
    LET r == train(hp[id], X, y, fit_raises)
        name == hp[id].model_name
    IN  IF r.raised
        THEN [training_info |-> DictSet(ti, name, TrainingFailure(r.error)),
              heap |-> [hp EXCEPT ![id] = r.model],
              raised |-> TRUE, error |-> r.error, value |-> NoObject,
              fit_called |-> r.fit_called]
        ELSE [training_info |-> DictSet(ti, name, TrainingSuccess(X)),
              heap |-> [hp EXCEPT ![id] = r.model],
              raised |-> FALSE, error |-> None, value |-> id,
              fit_called |-> r.fit_called]

\* the training loop without its try/except: the first failure leaves the loop
TrainLoopStepFailFast(acc, key, r) ==
    [training_info |-> r.training_info,
     heap |-> r.heap,
     trained_models |-> IF r.raised THEN acc.trained_models
                        ELSE DictSet(acc.trained_models, key, r.value),
     attempted |-> Append(acc.attempted, key),
     raised |-> r.raised,
     stopped |-> r.raised]

\* what the loop of train_multiple_models does with one model's outcome: a
\* raised train_model is logged and the loop continues
TrainLoopStep(acc, key, r) ==
    [training_info |-> r.training_info,
     heap |-> r.heap,
     trained_models |-> IF r.raised THEN acc.trained_models
                        ELSE DictSet(acc.trained_models, key, r.value),
     attempted |-> Append(acc.attempted, key),
     raised |-> FALSE,
     stopped |-> FALSE]

RECURSIVE TrainLoop(_, _, _, _, _, _)
\* the for loop of train_multiple_models from position i; fit_fails is the
\* set of keys whose fit raises
TrainLoop(acc, ms, i, X, y, fit_fails) ==
    IF i > Len(ms) \/ acc.stopped THEN acc
    ELSE TrainLoop(
            TrainLoopStep(acc, ms[i].k,
                train_model(acc.training_info, acc.heap, ms[i].v, X, y,
                            ms[i].k \in fit_fails)),
            ms, i + 1, X, y, fit_fails)

\* ModelTrainer.train_multiple_models
train_multiple_models(ti, hp, ms, X, y, fit_fails) ==
    TrainLoop([training_info |-> ti, heap |-> hp, trained_models |-> EmptyDict,
               attempted |-> <<>>, raised |-> FALSE, stopped |-> FALSE],
              ms, 1, X, y, fit_fails)

\* ModelTrainer.get_training_info: the trainer's own dict, not a copy
get_training_info == training_info

-----------------------------------------------------------------------------
(* ModelEvaluator.                                                         *)

\* what the library computes for one model: the stage that raises (or "ok")
\* and the weighted F1 score
EvalOutcome(stage, f1) == [stage |-> stage, f1 |-> f1]

\* _calculate_metrics: the record always carries f1_score
Metrics(f1) == [f1_score |-> f1]

NewEvaluator == [evaluation_results |-> EmptyDict, best_model |-> None]

\* ModelEvaluator.evaluate_model: predict, predict_proba, metrics, then the
\* store; any exception is logged and re-raised before the store
evaluate_model(e, hp, id, out) ==
    LET p  == predict(hp[id], out.stage = "predict")
        pp == predict_proba(hp[id], out.stage = "predict_proba")
    IN  IF p.raised
        THEN [ev |-> e, raised |-> TRUE, error |-> p.error, value |-> <<>>]
        ELSE IF pp.raised
        THEN [ev |-> e, raised |-> TRUE, error |-> pp.error, value |-> <<>>]
        ELSE IF out.stage = "metrics"
        THEN [ev |-> e, raised |-> TRUE, error |-> "metrics", value |-> <<>>]
        ELSE [ev |-> [e EXCEPT !.evaluation_results =
                        DictSet(@, hp[id].model_name, Metrics(out.f1))],
              raised |-> FALSE, error |-> None, value |-> Metrics(out.f1)]

RECURSIVE BestLoopLastWins(_, _, _, _)
\* the selection loop comparing with >= : a later equal score replaces the best
BestLoopLastWins(results, i, best_model, best_f1) ==
    IF i > Len(results) THEN best_model
    ELSE IF "f1_score" \in DOMAIN results[i].v /\ results[i].v.f1_score >= best_f1
    THEN BestLoopLastWins(results, i + 1, results[i].k, results[i].v.f1_score)
    ELSE BestLoopLastWins(results, i + 1, best_model, best_f1)

RECURSIVE BestLoop(_, _, _, _)
\* the loop of _identify_best_model / get_best_model from position i
BestLoop(results, i, best_model, best_f1) ==
    IF i > Len(results) THEN best_model
    ELSE IF "f1_score" \in DOMAIN results[i].v /\ results[i].v.f1_score > best_f1
    THEN BestLoop(results, i + 1, results[i].k, results[i].v.f1_score)
    ELSE BestLoop(results, i + 1, best_model, best_f1)

\* the name _identify_best_model stores in self.best_model (best_f1 starts at -1)
identify_best_model(results) == BestLoop(results, 1, None, -1)

\* ModelTrainer.get_best_model: the same loop over evaluation_results
get_best_model(results) == BestLoop(results, 1, None, -1)

\* the evaluation loop without its try/except
EvalLoopStepFailFast(acc, key, r) ==
    [ev |-> r.ev,
     all_results |-> IF r.raised THEN acc.all_results
                     ELSE DictSet(acc.all_results, key, r.value),
     attempted |-> Append(acc.attempted, key),
     raised |-> r.raised,
     stopped |-> r.raised]

\* what the loop of evaluate_multiple_models does with one model's outcome
EvalLoopStep(acc, key, r) ==
    [ev |-> r.ev,
     all_results |-> IF r.raised THEN acc.all_results
                     ELSE DictSet(acc.all_results, key, r.value),
     attempted |-> Append(acc.attempted, key),
     raised |-> FALSE,
     stopped |-> FALSE]

RECURSIVE EvalLoop(_, _, _, _, _)
\* the for loop of evaluate_multiple_models from position i; outs maps each
\* key to the library's outcome for it
EvalLoop(acc, hp, ms, i, outs) ==
    IF i > Len(ms) \/ acc.stopped THEN acc
    ELSE EvalLoop(
            EvalLoopStep(acc, ms[i].k,
                evaluate_model(acc.ev, hp, ms[i].v, outs[ms[i].k])),
            hp, ms, i + 1, outs)

\* ModelEvaluator.evaluate_multiple_models: the loop, then _identify_best_model
\* over the results of this call
evaluate_multiple_models(e, hp, ms, outs) ==
    LET r == EvalLoop([ev |-> e, all_results |-> EmptyDict, attempted |-> <<>>,
                       raised |-> FALSE, stopped |-> FALSE], hp, ms, 1, outs)
    IN  [r EXCEPT !.ev.best_model = identify_best_model(r.all_results)]

\* ModelEvaluator.get_evaluation_report: best_model and model_count are
\* copied, evaluation_results is the evaluator's own dict
get_evaluation_report(e) ==
    [best_model |-> e.best_model, model_count |-> Len(e.evaluation_results)]

\* ModelEvaluator.get_model_comparison as list of rows (to_dict('records'))
get_model_comparison(e) ==
    IF Len(e.evaluation_results) = 0 THEN <<>>
    ELSE [i \in 1..Len(e.evaluation_results) |->
            [Model |-> e.evaluation_results[i].k,
             F1 |-> e.evaluation_results[i].v.f1_score]]

-----------------------------------------------------------------------------
(* The row source and the cleaner. A dataset is its ordered column names    *)
(* and its rows; a row carries its index label and one cell for each of    *)
(* SeniorCitizen, Partner, tenure, TotalCharges and Churn. The other        *)
(* columns of AllColumns, when present, hold the same valid value in every  *)
(* row (Dependents "No", MultipleLines "No", Contract "Month-to-month",     *)
(* MonthlyCharges 2, one customerID), so no cleaning step changes them.     *)

\* largest dataset the row source yields
MaxRows == 3

\* ModelTrainer.__init__: test_size = 0.2, in percent
TestSizePct == 20

AllColumns ==
    <<"customerID", "SeniorCitizen", "Partner", "Dependents", "tenure",
      "MultipleLines", "Contract", "MonthlyCharges", "TotalCharges", "Churn">>

Without(c) == SelectSeq(AllColumns, LAMBDA x : x # c)

\* the columns whose cells a row carries
ValuedColumns == {"SeniorCitizen", "Partner", "tenure", "TotalCharges", "Churn"}

\* cells: a missing value, a number, a string, and the cell of an absent column
NaN == [nan |-> TRUE]

Num(n) == [num |-> n]

Str(s) == [str |-> s]

Absent == [absent |-> TRUE]

IsNaN(c) == "nan" \in DOMAIN c

IsNum(c) == "num" \in DOMAIN c

IsStr(c) == "str" \in DOMAIN c

\* a DataFrame with cell values; rows is len(data)
Frame(cols, cells) == [columns |-> cols, rows |-> Len(cells), cells |-> cells]

ColumnSet(data) == {data.columns[i] : i \in 1..Len(data.columns)}

NoData == <<>>

\* data[col] as the sequence of its cells
Column(data, col) == [i \in 1..data.rows |-> data.cells[i][col]]

\* data[col].isnull().any()
AnyNull(data, col) == \E i \in 1..data.rows : IsNaN(data.cells[i][col])

\* data.isnull().sum().sum()
MissingCount(data) ==
    Cardinality({<<i, c>> \in (1..data.rows) \X (ValuedColumns \cap ColumnSet(data)) :
                    IsNaN(data.cells[i][c])})

\* the k-th row of a file of distinct customers
SourceRow(k, cols, na) ==
    [c \in ValuedColumns \cup {"index"} |->
        IF c = "index" THEN Num(k - 1)
        ELSE IF c \notin {cols[i] : i \in 1..Len(cols)} THEN Absent
        ELSE IF c = "SeniorCitizen" THEN (IF na /\ k = 1 THEN NaN ELSE Num(1))
        ELSE IF c = "Partner" THEN Str(IF k % 2 = 1 THEN "Yes " ELSE "No")
        ELSE IF c = "tenure" THEN Num(2 * k)
        ELSE IF c = "TotalCharges" THEN Str(IF k = 2 THEN " " ELSE "2")
        ELSE Str(IF k % 2 = 1 THEN "Yes" ELSE "No")]

\* a file of n rows with columns cols: n - d distinct customers, then d
\* repetitions of the first row; na puts a missing SeniorCitizen in row 1
Dataset(cols, n, d, na) ==
    Frame(cols,
          [i \in 1..n |->
              [SourceRow(IF i <= n - d THEN i ELSE 1, cols, na)
                  EXCEPT !["index"] = Num(i - 1)]])

\* the file contents TelcoDataLoader.load_data may find
Sources ==
    {Dataset(cols, n, d, na) :
        cols \in {AllColumns, Without("Churn"), Without("Partner")},
        n \in {0, MaxRows}, d \in {0, 1}, na \in BOOLEAN}

\* TelcoDataLoader.validation_rules['required_columns']
required_columns == {"customerID", "Churn", "tenure", "MonthlyCharges"}

\* validate_data that does not require the label column
validate_data_without_label(data) ==
    (required_columns \ {"Churn"}) \subseteq ColumnSet(data)

\* TelcoDataLoader.validate_data: False when a required column is absent,
\* True otherwise (the other findings are warnings)
validate_data(data) == required_columns \subseteq ColumnSet(data)

\* TelcoDataCleaner.__init__
NewDataCleaner == [cleaning_report |-> EmptyDict]

\* the numbers among the cells of a column, in row order
Numbers(col) == SelectSeq(col, IsNum)

\* Series.median(): the middle of the sorted non-missing values, the mean of
\* the two middle ones when their count is even (the values here are even);
\* a missing value when there is none
Median(col) ==
    LET s == SortSeq(Numbers(col), LAMBDA a, b : a.num < b.num)
        n == Len(s)
    IN  IF n = 0 THEN NaN
        ELSE IF n % 2 = 1 THEN s[(n + 1) \div 2]
        ELSE Num((s[n \div 2].num + s[n \div 2 + 1].num) \div 2)

\* sort order of the strings a categorical cell may hold
StringOrder == <<"No", "Yes", "Yes ", "nan">>

Rank(s) == CHOOSE i \in 1..Len(StringOrder) : StringOrder[i] = s

\* the strings of S as a sorted sequence
Sorted(S) ==
    [i \in 1..Cardinality(S) |->
        CHOOSE v \in S : Cardinality({w \in S : Rank(w) < Rank(v)}) = i - 1]

\* the distinct strings among the cells of a column
Strings(col) == {col[i].str : i \in {j \in 1..Len(col) : IsStr(col[j])}}

\* Series.mode(): the most frequent non-missing values, sorted
Mode(col) ==
    LET count(v) == Cardinality({i \in 1..Len(col) : col[i] = Str(v)})
    IN  Sorted({v \in Strings(col) : \A w \in Strings(col) : count(w) <= count(v)})

\* data[col].fillna(value, inplace=True)
FillNa(data, col, value) ==
    Frame(data.columns,
          [i \in 1..data.rows |->
              IF IsNaN(data.cells[i][col])
              THEN [data.cells[i] EXCEPT ![col] = value]
              ELSE data.cells[i]])

\* median() raises TypeError on a column that holds strings
MedianRaises(data, col) ==
    /\ col \in ColumnSet(data)
    /\ AnyNull(data, col)
    /\ \E i \in 1..data.rows : IsStr(data.cells[i][col])

\* mode()[0] raises on a column whose every value is missing: mode() is empty
ModeRaises(data, col) ==
    /\ col \in ColumnSet(data)
    /\ AnyNull(data, col)
    /\ Len(Mode(Column(data, col))) = 0

\* the numeric branch of _handle_missing_values for one column
FillMedian(data, col) ==
    IF col \in ColumnSet(data) /\ AnyNull(data, col)
    THEN FillNa(data, col, Median(Column(data, col)))
    ELSE data

\* the categorical branch of _handle_missing_values for one column
FillMode(data, col) ==
    IF col \in ColumnSet(data) /\ AnyNull(data, col)
    THEN FillNa(data, col, Str(Mode(Column(data, col))[1]))
    ELSE data

\* TelcoDataCleaner._handle_missing_values raises
MissingRaises(data) ==
    \/ MedianRaises(data, "tenure")
    \/ MedianRaises(data, "TotalCharges")
    \/ ModeRaises(data, "Partner")

\* TelcoDataCleaner._handle_missing_values
handle_missing_values(data) ==
    FillMode(FillMedian(FillMedian(data, "tenure"), "TotalCharges"), "Partner")

\* str.strip() on the strings a categorical cell may hold
Strip(s) ==
    IF s = "Yes " THEN "Yes"
    ELSE IF s = "No phone service " THEN "No phone service"
    ELSE s

\* data[col].astype(str).str.strip() on one cell
StrStrip(c) ==
    IF IsNaN(c) THEN Str("nan")
    ELSE IF IsNum(c) THEN c
    ELSE Str(Strip(c.str))

\* data[col] = data[col].astype(str).str.strip() when col is present
StripColumn(data, col) ==
    IF col \in ColumnSet(data)
    THEN Frame(data.columns,
               [i \in 1..data.rows |->
                   [data.cells[i] EXCEPT ![col] = StrStrip(data.cells[i][col])]])
    ELSE data

\* TelcoDataCleaner._handle_inconsistent_values
handle_inconsistent_values(data) == StripColumn(StripColumn(data, "Partner"), "Churn")

\* categorical_columns of _handle_inconsistent_values: the columns it strips
stripped_columns ==
    {"gender", "Partner", "Dependents", "PhoneService", "MultipleLines",
     "InternetService", "OnlineSecurity", "OnlineBackup", "DeviceProtection",
     "TechSupport", "StreamingTV", "StreamingMovies", "Contract",
     "PaperlessBilling", "PaymentMethod", "Churn"}

\* service_columns of _handle_inconsistent_values: the columns it replaces in
service_columns ==
    {"OnlineSecurity", "OnlineBackup", "DeviceProtection", "TechSupport",
     "StreamingTV", "StreamingMovies"}

\* data[col].replace(['No internet service', 'No phone service'], 'No') on one cell
ReplaceNoService(c) ==
    IF c \in {Str("No internet service"), Str("No phone service")} THEN Str("No") ELSE c

\* _handle_inconsistent_values on the values of column col
NormalizeSeries(col, series) ==
    [i \in 1..Len(series) |->
        IF col \in service_columns THEN ReplaceNoService(StrStrip(series[i]))
        ELSE IF col \in stripped_columns THEN StrStrip(series[i])
        ELSE series[i]]

\* drop_duplicates on a dataset of one column: the first of equal values stays
DropDuplicateValues(series) ==
    LET pos == SelectSeq([i \in 1..Len(series) |-> i],
                         LAMBDA i : \A j \in 1..(i - 1) : series[j] # series[i])
    IN  [k \in 1..Len(pos) |-> series[pos[k]]]

\* clean_data on a dataset whose one column col holds strings, none missing:
\* imputation and type conversion find nothing to do
CleanSeries(col, series) == DropDuplicateValues(NormalizeSeries(col, series))

\* pd.to_numeric(errors='coerce') on one cell, then fillna(0)
ToNumericOrZero(c) ==
    IF IsNum(c) THEN c
    ELSE IF IsStr(c) /\ c.str = "2" THEN Num(2)
    ELSE Num(0)

\* astype(int) raises on a missing value
ConvertRaises(data) ==
    "SeniorCitizen" \in ColumnSet(data) /\ AnyNull(data, "SeniorCitizen")

\* TelcoDataCleaner._convert_data_types
convert_data_types(data) ==
    IF "TotalCharges" \in ColumnSet(data)
    THEN Frame(data.columns,
               [i \in 1..data.rows |->
                   [data.cells[i] EXCEPT
                       !["TotalCharges"] = ToNumericOrZero(data.cells[i]["TotalCharges"])]])
    ELSE data

\* the cells of a row without its index label
Values(row) == [c \in ValuedColumns |-> row[c]]

\* TelcoDataCleaner._remove_duplicates: drop_duplicates keeps the first of
\* equal rows, with its index label
remove_duplicates(data) ==
    LET keep == {i \in 1..data.rows :
                    \A j \in 1..(i - 1) : Values(data.cells[j]) # Values(data.cells[i])}
        pos == SelectSeq([i \in 1..data.rows |-> i], LAMBDA i : i \in keep)
    IN  Frame(data.columns, [k \in 1..Len(pos) |-> data.cells[pos[k]]])

\* TelcoDataCleaner.clean_data raises
CleanRaises(data) ==
    \/ MissingRaises(data)
    \/ ConvertRaises(handle_inconsistent_values(handle_missing_values(data)))

\* TelcoDataCleaner.clean_data: the four steps in order
clean_data(data) ==
    remove_duplicates(
        convert_data_types(
            handle_inconsistent_values(
                handle_missing_values(data))))

\* TelcoDataCleaner.cleaning_report as rebuilt by every clean_data call
CleaningReport(data) ==
    [initial_shape |-> <<data.rows, Len(data.columns)>>,
     final_shape |-> <<clean_data(data).rows, Len(data.columns)>>,
     initial_missing |-> MissingCount(data),
     final_missing |-> MissingCount(clean_data(data)),
     rows_removed |-> data.rows - clean_data(data).rows,
     columns_removed |-> 0]

-----------------------------------------------------------------------------
(* TelcoFeatureEngineer, on the datasets clean_data returns. Of the feature *)
(* matrix the cells of tenure, feature_has_family and Partner_encoded are   *)
(* carried: one scaled original, one scaled derived feature, one encoded    *)
(* category.                                                               *)

\* the columns _create_derived_features reads without testing their presence
derive_reads ==
    {"Partner", "Dependents", "Contract", "MultipleLines", "MonthlyCharges",
     "tenure", "TotalCharges"}

\* TelcoFeatureEngineer.categorical_columns, in the order of the list
categorical_order ==
    <<"gender", "Partner", "Dependents", "PhoneService", "MultipleLines",
      "InternetService", "OnlineSecurity", "OnlineBackup", "DeviceProtection",
      "TechSupport", "StreamingTV", "StreamingMovies", "Contract",
      "PaperlessBilling", "PaymentMethod">>

\* the same columns as a set
categorical_columns == {categorical_order[i] : i \in 1..Len(categorical_order)}

\* the value every row holds in a categorical column that carries no cell
ConstantValue(col) ==
    IF col = "Contract" THEN "Month-to-month"
    ELSE IF col = "gender" THEN "Male"
    ELSE IF col = "PaymentMethod" THEN "Mailed check"
    ELSE "No"

\* TelcoFeatureEngineer.__init__: no encoder, an unfitted StandardScaler
NewFeatureEngineer ==
    [label_encoders |-> EmptyDict, scaler |-> [fitted |-> FALSE],
     feature_info |-> EmptyDict]

\* _create_derived_features raises KeyError on an absent column it reads
DeriveRaises(data) == ~(derive_reads \subseteq ColumnSet(data))

\* StandardScaler.fit_transform raises on a dataset without rows
ScalerRaises(data) == data.rows = 0

\* TelcoFeatureEngineer.engineer_features raises
EngineerRaises(data) == DeriveRaises(data) \/ ScalerRaises(data)

\* feature_has_family of one row: Partner == 'Yes' or Dependents == 'Yes'
HasFamily(row) ==
    Num(IF row["Partner"] = Str("Yes") \/ ConstantValue("Dependents") = "Yes"
        THEN 1 ELSE 0)

\* LabelEncoder.fit on data[col]: classes_ is the sorted distinct values
FitEncoder(data, col) ==
    IF col = "Partner" THEN Sorted(Strings(Column(data, col)))
    ELSE IF data.rows = 0 THEN <<>>
    ELSE <<ConstantValue(col)>>

\* LabelEncoder.transform of one value: its position in classes_
Encode(classes, c) == Num((CHOOSE i \in 1..Len(classes) : classes[i] = c.str) - 1)

RECURSIVE EncodeLoop(_, _, _)
\* the loop of _encode_categorical_features from position i: a new encoder
\* is fitted on every present column and stored under its name
EncodeLoop(encoders, data, i) ==
    IF i > Len(categorical_order) THEN encoders
    ELSE EncodeLoop(
            IF categorical_order[i] \in ColumnSet(data)
            THEN DictSet(encoders, categorical_order[i],
                         FitEncoder(data, categorical_order[i]))
            ELSE encoders,
            data, i + 1)

\* the sum of f over the numbers of a column
RECURSIVE SumOver(_, _, _)
SumOver(col, i, sq) ==
    IF i > Len(col) THEN 0
    ELSE (IF IsNum(col[i]) THEN (IF sq THEN col[i].num * col[i].num ELSE col[i].num)
          ELSE 0)
         + SumOver(col, i + 1, sq)

\* what StandardScaler.fit keeps of one column: mean_ and var_ are functions
\* of the count, the sum and the sum of squares of its non-missing values
Statistics(col) ==
    [n |-> Len(Numbers(col)), sum |-> SumOver(col, 1, FALSE),
     sumsq |-> SumOver(col, 1, TRUE)]

\* the columns handed to the scaler: the numeric originals, then the derived
NumericFeatures(data) ==
    SelectSeq(<<"tenure", "MonthlyCharges", "TotalCharges">>,
              LAMBDA c : c \in ColumnSet(data))
    \o <<"feature_total_services", "feature_has_family">>
    \o (IF "SeniorCitizen" \in ColumnSet(data) THEN <<"feature_is_senior">> ELSE <<>>)
    \o <<"feature_long_contract", "feature_multiple_lines",
         "feature_monthly_per_tenure", "feature_total_per_tenure",
         "feature_charges_difference">>

\* StandardScaler.fit on the numeric features of data
FitScaler(data) ==
    [fitted |-> TRUE,
     features |-> NumericFeatures(data),
     tenure |-> Statistics(Column(data, "tenure")),
     feature_has_family |-> Statistics([i \in 1..data.rows |-> HasFamily(data.cells[i])])]

\* StandardScaler.transform of one cell: (x - mean_) / scale_
Scale(statistics, c) == [raw |-> c, statistics |-> statistics]

\* the dtype of a column of a cleaned dataset: numbers in the numeric columns
\* and in Score, strings everywhere else
Dtype(col) ==
    IF col \in {"tenure", "MonthlyCharges", "TotalCharges", "Score"} THEN "float64"
    ELSE IF col = "SeniorCitizen" THEN "int64"
    ELSE "object"

\* the columns of data, with their dtypes, when _select_final_features is
\* entered: the originals, the derived feature_ columns, the _encoded columns
EngineeredColumns(data) ==
    [i \in 1..Len(data.columns) |->
        [name |-> data.columns[i], dtype |-> Dtype(data.columns[i])]]
    \o <<[name |-> "feature_total_services", dtype |-> "float64"],
         [name |-> "feature_has_family", dtype |-> "float64"]>>
    \o (IF "SeniorCitizen" \in ColumnSet(data)
        THEN <<[name |-> "feature_is_senior", dtype |-> "float64"]>> ELSE <<>>)
    \o <<[name |-> "feature_long_contract", dtype |-> "float64"],
         [name |-> "feature_multiple_lines", dtype |-> "float64"],
         [name |-> "feature_monthly_per_tenure", dtype |-> "float64"],
         [name |-> "feature_total_per_tenure", dtype |-> "float64"],
         [name |-> "feature_charges_difference", dtype |-> "float64"]>>
    \o [i \in 1..Len(SelectSeq(categorical_order, LAMBDA c : c \in ColumnSet(data))) |->
          [name |-> SelectSeq(categorical_order, LAMBDA c : c \in ColumnSet(data))[i]
                        \o "_encoded",
           dtype |-> "int64"]]

\* _select_final_features without its numeric filter
select_final_features_unfiltered(columns) ==
    LET names == {columns[i].name : i \in 1..Len(columns)}
        columns_to_drop ==
            ((names \cap categorical_columns) \cup (names \cap {"customerID", "Churn"}))
                \ {"PaymentMethod"}
    IN  SelectSeq(columns, LAMBDA c : c.name \notin columns_to_drop)

\* _select_final_features: the drop list (PaymentMethod is taken off it), then
\* only the columns of a numeric dtype
select_final_features(columns) ==
    LET names == {columns[i].name : i \in 1..Len(columns)}
        columns_to_drop ==
            ((names \cap categorical_columns) \cup (names \cap {"customerID", "Churn"}))
                \ {"PaymentMethod"}
        dropped == SelectSeq(columns, LAMBDA c : c.name \notin columns_to_drop)
    IN  SelectSeq(dropped,
                  LAMBDA c : c.dtype \in {"int64", "float64", "int32", "float32"})

\* the column names of the feature matrix
FeatureColumns(data) ==
    [i \in 1..Len(select_final_features(EngineeredColumns(data))) |->
        select_final_features(EngineeredColumns(data))[i].name]

\* the row of the feature matrix made from one row of data: every step of
\* engineer_features assigns whole columns, so the index label stays
FeatureRow(data, row) ==
    [index |-> row["index"],
     tenure |-> Scale(FitScaler(data).tenure, row["tenure"]),
     feature_has_family |-> Scale(FitScaler(data).feature_has_family, HasFamily(row)),
     Partner_encoded |-> Encode(FitEncoder(data, "Partner"), row["Partner"])]

\* engineer_features with a final dropna(): rows without tenure are left out
FeatureRowsDropMissing(data) ==
    LET pos == SelectSeq([i \in 1..data.rows |-> i],
                         LAMBDA i : ~IsNaN(data.cells[i]["tenure"]))
    IN  [k \in 1..Len(pos) |-> FeatureRow(data, data.cells[pos[k]])]

\* the rows of the feature matrix, one per row of data and in its order
FeatureRows(data) == [i \in 1..data.rows |-> FeatureRow(data, data.cells[i])]

\* TelcoFeatureEngineer.engineer_features: the feature matrix
engineer_features(data) == Frame(FeatureColumns(data), FeatureRows(data))

\* TelcoFeatureEngineer.feature_info as rebuilt by every engineer_features call
FeatureInfo(data) ==
    [total_features |-> Len(FeatureColumns(data)),
     feature_names |-> FeatureColumns(data)]

\* the engineer after engineer_features(data): nothing is touched when the
\* derivation raises; the encoders are refitted before the scaler, whose fit
\* resets it first; feature_info is assigned last
EngineerAfter(eng, data) ==
    IF DeriveRaises(data) THEN eng
    ELSE IF ScalerRaises(data)
    THEN [eng EXCEPT !.label_encoders = EncodeLoop(eng.label_encoders, data, 1),
                    !.scaler = [fitted |-> FALSE]]
    ELSE [label_encoders |-> EncodeLoop(eng.label_encoders, data, 1),
          scaler |-> FitScaler(data),
          feature_info |-> FeatureInfo(data)]

-----------------------------------------------------------------------------
(* The label vector of _prepare_data.                                      *)

\* a label vector that is 1 for every value other than "No"
LabelVectorNotNo(data) ==
    [rows |-> data.rows,
     cells |-> [i \in 1..data.rows |->
                  [index |-> data.cells[i]["index"],
                   value |-> IF data.cells[i]["Churn"] = Str("No") THEN 0 ELSE 1]]]

\* y = (cleaned_data['Churn'] == 'Yes').astype(int): one entry per row of the
\* cleaned data, under that row's index label
LabelVector(data) ==
    [rows |-> data.rows,
     cells |-> [i \in 1..data.rows |->
                  [index |-> data.cells[i]["index"],
                   value |-> IF data.cells[i]["Churn"] = Str("Yes") THEN 1 ELSE 0]]]

-----------------------------------------------------------------------------
(* ModelTrainer.split_data.                                                *)

\* train_test_split sizes: n_test = ceil(test_size * n), the rest is train
TestRows(n) == (n * TestSizePct + 99) \div 100

\* ModelTrainer.split_data raises for sure when a side of the split would be
\* empty; stratification may make it raise in other cases (the library decides)
SplitMustRaise(X, y) == X.rows = 0 \/ X.rows # y.rows \/ X.rows - TestRows(X.rows) = 0

\* ModelTrainer.split_data
split_data(X, y) ==
    [X_train |-> DataFrame(X.rows - TestRows(X.rows), X.columns),
     X_test  |-> DataFrame(TestRows(X.rows), X.columns),
     y_train |-> Series(X.rows - TestRows(X.rows)),
     y_test  |-> Series(TestRows(X.rows))]

-----------------------------------------------------------------------------
(* MLPipeline.                                                             *)

PhaseOrder ==
    <<"LOAD", "VALIDATE", "CLEAN", "DERIVE_FEATURES", "SPLIT", "CREATE_MODELS",
      "TRAIN", "EVALUATE", "SUMMARIZE", "DONE">>

PhaseIndex(p) == CHOOSE i \in 1..Len(PhaseOrder) : PhaseOrder[i] = p

\* run() without the validation step
NextPhaseSkipsValidate(p) ==
    IF p = "DONE" THEN "RETURNED"
    ELSE IF p = "LOAD" THEN "CLEAN"
    ELSE PhaseOrder[PhaseIndex(p) + 1]

\* the statement order of the try block of MLPipeline.run
NextPhase(p) ==
    IF p = "DONE" THEN "RETURNED" ELSE PhaseOrder[PhaseIndex(p) + 1]

\* where run() goes when phase p raises: the except clause logs and re-raises
RaiseTarget(p) == "RAISED"

\* values stored in pipeline_results that are the component's own dict
RefTrainingInfo == "ModelTrainer.training_info"

RefEvaluationResults == "ModelEvaluator.evaluation_results"

\* phase p returned: run() goes on with the next statement
Advance(p) ==
    /\ pc' = NextPhase(p)
    /\ started' = Append(started, p)
    /\ completed' = Append(completed, p)

\* phase p raised: the exception leaves run()
Abort(p) ==
    /\ pc' = RaiseTarget(p)
    /\ started' = Append(started, p)
    /\ completed' = IF RaiseTarget(p) = "RAISED" THEN completed ELSE Append(completed, p)
    /\ ret' = IF RaiseTarget(p) = "RAISED" THEN "raised" ELSE ret

\* pipeline_results[key] = value inside the current run
Record(key, value) ==
    /\ pipeline_results' = DictSet(pipeline_results, key, value)
    /\ run_written' = run_written \cup {key}

\* MLPipeline.__init__ with freshly constructed components
Init ==
    /\ pc = "IDLE"
    /\ started = <<>>
    /\ completed = <<>>
    /\ ret = "none"
    /\ reran = FALSE
    /\ raw_data = NoData
    /\ cleaned_data = NoData
    /\ engineered_data = NoData
    /\ split = NoData
    /\ models = EmptyDict
    /\ trained_models = EmptyDict
    /\ evaluation_results = EmptyDict
    /\ pipeline_results = EmptyDict
    /\ run_written = {}
    /\ heap = <<>>
    /\ training_info = EmptyDict
    /\ ev = NewEvaluator
    /\ cleaner = NewDataCleaner
    /\ fe = NewFeatureEngineer
    /\ returned = NoData
    /\ calls = 0
    /\ last = [op |-> "none"]

\* the caller invokes run() on the new pipeline
Run ==
    /\ pc = "IDLE"
    /\ pc' = "LOAD"
    /\ started' = <<>>
    /\ completed' = <<>>
    /\ ret' = "pending"
    /\ run_written' = {}
    /\ UNCHANGED <<data_vars, returned, reran, raw_data, cleaned_data, engineered_data,
                   split, models, trained_models, evaluation_results,
                   pipeline_results, heap, training_info, ev, calls, last>>

\* the caller invokes run() again on the same pipeline and components
Rerun ==
    /\ pc \in {"RETURNED", "RAISED"}
    /\ ~reran
    /\ reran' = TRUE
    /\ pc' = "LOAD"
    /\ started' = <<>>
    /\ completed' = <<>>
    /\ ret' = "pending"
    /\ run_written' = {}
    /\ last' = [op |-> "none"]
    /\ UNCHANGED <<data_vars, returned, raw_data, cleaned_data, engineered_data, split,
                   models, trained_models, evaluation_results, pipeline_results,
                   heap, training_info, ev, calls>>

\* _load_data, first statement: the file is missing and load_data raises
LoadRaises ==
    /\ pc = "LOAD"
    /\ Abort("LOAD")
    /\ UNCHANGED <<data_vars, returned, reran, raw_data, cleaned_data, engineered_data, split, models,
                   trained_models, evaluation_results, pipeline_results,
                   run_written, heap, training_info, ev, calls, last>>

\* _load_data, first statement: raw_data = data_loader.load_data()
Load ==
    /\ pc = "LOAD"
    /\ \E src \in Sources : raw_data' = src
    /\ Advance("LOAD")
    /\ UNCHANGED <<data_vars, returned, ret, reran, cleaned_data, engineered_data, split, models,
                   trained_models, evaluation_results, pipeline_results,
                   run_written, heap, training_info, ev, calls, last>>

\* _load_data, second statement: validate_data, ValueError when it is False
Validate ==
    /\ pc = "VALIDATE"
    /\ IF validate_data(raw_data)
       THEN Advance("VALIDATE") /\ ret' = ret
       ELSE Abort("VALIDATE")
    /\ UNCHANGED <<data_vars, returned, reran, raw_data, cleaned_data, engineered_data, split, models,
                   trained_models, evaluation_results, pipeline_results,
                   run_written, heap, training_info, ev, calls, last>>

\* _clean_data
Clean ==
    /\ pc = "CLEAN"
    /\ IF CleanRaises(raw_data)
       THEN /\ Abort("CLEAN")
            /\ UNCHANGED <<cleaned_data, cleaner, pipeline_results, run_written>>
       ELSE /\ cleaned_data' = clean_data(raw_data)
            /\ cleaner' = [cleaning_report |-> CleaningReport(raw_data)]
            /\ Record("cleaning_report", CleaningReport(raw_data))
            /\ Advance("CLEAN")
            /\ ret' = ret
    /\ UNCHANGED <<fe, returned, reran, raw_data, engineered_data, split, models,
                   trained_models, evaluation_results, heap, training_info, ev,
                   calls, last>>

\* _engineer_features
Derive ==
    /\ pc = "DERIVE_FEATURES"
    /\ fe' = EngineerAfter(fe, cleaned_data)
    /\ IF EngineerRaises(cleaned_data)
       THEN /\ Abort("DERIVE_FEATURES")
            /\ UNCHANGED <<engineered_data, pipeline_results, run_written>>
       ELSE /\ engineered_data' = engineer_features(cleaned_data)
            /\ Record("feature_info", FeatureInfo(cleaned_data))
            /\ Advance("DERIVE_FEATURES")
            /\ ret' = ret
    /\ UNCHANGED <<cleaner, returned, reran, raw_data, cleaned_data, split, models,
                   trained_models, evaluation_results, heap, training_info, ev,
                   calls, last>>

\* _prepare_data: the Churn check, the label vector, split_data
Split ==
    /\ pc = "SPLIT"
    /\ \E stratify_raises \in BOOLEAN :
        LET X == engineered_data
            y == LabelVector(cleaned_data)
        IN  IF \/ "Churn" \notin ColumnSet(cleaned_data)
               \/ SplitMustRaise(X, y)
               \/ stratify_raises
            THEN Abort("SPLIT") /\ split' = split
            ELSE /\ split' = split_data(X, y)
                 /\ Advance("SPLIT")
                 /\ ret' = ret
    /\ UNCHANGED <<data_vars, returned, reran, raw_data, cleaned_data, engineered_data, models,
                   trained_models, evaluation_results, pipeline_results,
                   run_written, heap, training_info, ev, calls, last>>

\* _create_models: three new classifier objects under their own names
CreateModels ==
    /\ pc = "CREATE_MODELS"
    /\ heap' = heap \o <<LogisticRegressionModel, RandomForestModel,
                         GradientBoostingModel>>
    /\ models' = <<[k |-> "LogisticRegression", v |-> Len(heap) + 1],
                   [k |-> "RandomForest", v |-> Len(heap) + 2],
                   [k |-> "GradientBoosting", v |-> Len(heap) + 3]>>
    /\ Advance("CREATE_MODELS")
    /\ UNCHANGED <<data_vars, returned, ret, reran, raw_data, cleaned_data, engineered_data, split,
                   trained_models, evaluation_results, pipeline_results,
                   run_written, training_info, ev, calls, last>>

\* _train_models
Train ==
    /\ pc = "TRAIN"
    /\ \E fit_fails \in SUBSET DictKeySet(models) :
        LET r == train_multiple_models(training_info, heap, models,
                                       split.X_train, split.y_train, fit_fails)
        IN  IF r.raised
            THEN /\ Abort("TRAIN")
                 /\ UNCHANGED <<trained_models, pipeline_results, run_written>>
                 /\ heap' = r.heap
                 /\ training_info' = r.training_info
            ELSE /\ trained_models' = r.trained_models
                 /\ heap' = r.heap
                 /\ training_info' = r.training_info
                 /\ Record("training_info", RefTrainingInfo)
                 /\ Advance("TRAIN")
                 /\ ret' = ret
    /\ UNCHANGED <<data_vars, returned, reran, raw_data, cleaned_data, engineered_data, split, models,
                   evaluation_results, ev, calls, last>>

\* the outcomes the library may produce for one model of a batch
BatchOutcomes ==
    {EvalOutcome(stage, 0) : stage \in {"predict", "predict_proba", "metrics"}}
    \cup {EvalOutcome("ok", f) : f \in 0..MaxF1}

\* _evaluate_models
Evaluate ==
    /\ pc = "EVALUATE"
    /\ \E outs \in [DictKeySet(trained_models) -> BatchOutcomes] :
        LET r == evaluate_multiple_models(ev, heap, trained_models, outs)
        IN  IF r.raised
            THEN /\ Abort("EVALUATE")
                 /\ UNCHANGED <<evaluation_results, pipeline_results, run_written>>
                 /\ ev' = r.ev
            ELSE /\ evaluation_results' = r.all_results
                 /\ ev' = r.ev
                 /\ Record("evaluation_report",
                           [evaluation_results |-> RefEvaluationResults]
                           @@ get_evaluation_report(r.ev))
                 /\ Advance("EVALUATE")
                 /\ ret' = ret
    /\ UNCHANGED <<data_vars, returned, reran, raw_data, cleaned_data, engineered_data, split, models,
                   trained_models, heap, training_info, calls, last>>

\* the five entries _generate_results writes with pipeline_results.update
SummaryUpdate(results, best_model_name, tm, er, e, hp) ==
    DictSet(DictSet(DictSet(DictSet(DictSet(results,
        "best_model", best_model_name),
        "best_model_metrics", DictGetOr(er, best_model_name, EmptyDict)),
        "model_comparison", get_model_comparison(e)),
        "feature_importance",
            IF DictHas(tm, best_model_name)
            THEN get_feature_importance(hp[DictGet(tm, best_model_name)])
            ELSE EmptyDict),
        "success", TRUE)

\* _generate_results
Summarize ==
    /\ pc = "SUMMARIZE"
    /\ pipeline_results' = SummaryUpdate(pipeline_results, ev.best_model,
                                         trained_models, evaluation_results, ev, heap)
    /\ run_written' = run_written \cup {"best_model", "best_model_metrics",
                                        "model_comparison", "feature_importance",
                                        "success"}
    /\ Advance("SUMMARIZE")
    /\ UNCHANGED <<data_vars, returned, ret, reran, raw_data, cleaned_data, engineered_data, split,
                   models, trained_models, evaluation_results, heap,
                   training_info, ev, calls, last>>

\* the content of the pipeline_results dict as a reader sees it: the entries
\* that are the trainer's and the evaluator's own dicts are read through
ResultContent(results, ti, e) ==
    [i \in 1..Len(results) |->
        IF results[i].k = "training_info" THEN [k |-> results[i].k, v |-> ti]
        ELSE IF results[i].k = "evaluation_report"
        THEN [k |-> results[i].k,
              v |-> [results[i].v EXCEPT !.evaluation_results = e.evaluation_results]]
        ELSE results[i]]

\* the tail of run(): the total time is attached and pipeline_results returned
Done ==
    /\ pc = "DONE"
    /\ Record("total_execution_time", "seconds")
    /\ Advance("DONE")
    /\ ret' = "pipeline_results"
    /\ returned' = ResultContent(pipeline_results', training_info, ev)
    /\ UNCHANGED <<data_vars, reran, raw_data, cleaned_data, engineered_data, split, models,
                   trained_models, evaluation_results, heap, training_info, ev,
                   calls, last>>

Next ==
    \/ Run
    \/ Rerun
    \/ LoadRaises
    \/ Load
    \/ Validate
    \/ Clean
    \/ Derive
    \/ Split
    \/ CreateModels
    \/ Train
    \/ Evaluate
    \/ Summarize
    \/ Done

Spec == Init /\ [][Next]_vars

-----------------------------------------------------------------------------
(* Inference: run() of the pipeline, once or twice, and MLPipeline.predict *)
(* calls on new data, before or after a run.                               *)

\* predict calls made on one pipeline
MaxPredicts == 1

\* the new data handed to MLPipeline.predict: customers without the label
PredictInputs == {Dataset(Without("Churn"), n, 0, FALSE) : n \in {0, 1, MaxRows}}

\* MLPipeline.get_best_model: the trained model under pipeline_results['best_model']
pipeline_get_best_model ==
    LET name == DictGetOr(pipeline_results, "best_model", None)
    IN  IF name # None /\ DictHas(trained_models, name)
        THEN DictGet(trained_models, name)
        ELSE NoObject

\* what clean_data and engineer_features make of each input of predict
PredictSteps ==
    [data \in PredictInputs |->
        IF CleanRaises(data)
        THEN [clean_raises |-> TRUE]
        ELSE LET cleaned == clean_data(data)
             IN  [clean_raises |-> FALSE,
                  cleaned |-> cleaned,
                  cleaning_report |-> CleaningReport(data),
                  engineer_raises |-> EngineerRaises(cleaned),
                  X |-> IF EngineerRaises(cleaned) THEN NoData
                        ELSE engineer_features(cleaned)]]

\* MLPipeline.predict(data): the best model, clean_data, engineer_features,
\* then the model's predict
Predict ==
    /\ pc \in {"IDLE", "RETURNED", "RAISED"}
    /\ calls < MaxPredicts
    /\ calls' = calls + 1
    /\ \E data \in PredictInputs, impl_raises \in BOOLEAN :
        LET id == pipeline_get_best_model
            step == PredictSteps[data]
            call == [op |-> "predict", data |-> data, before |-> fe]
        IN  IF id = NoObject
            THEN /\ last' = call @@ [raised |-> TRUE, error |-> "no_model"]
                 /\ UNCHANGED <<cleaner, fe>>
            ELSE IF step.clean_raises
            THEN /\ last' = call @@ [raised |-> TRUE, error |-> "clean_data"]
                 /\ UNCHANGED <<cleaner, fe>>
            ELSE /\ cleaner' = [cleaning_report |-> step.cleaning_report]
                 /\ fe' = EngineerAfter(fe, step.cleaned)
                 /\ IF step.engineer_raises
                    THEN last' = call @@ [raised |-> TRUE, error |-> "engineer_features"]
                    ELSE last' = call @@ [X |-> step.X]
                                      @@ predict(heap[id], impl_raises)
    /\ UNCHANGED <<pipeline_vars, heap, training_info, ev, returned>>

InferenceNext ==
    \/ Run
    \/ Rerun
    \/ LoadRaises
    \/ Load
    \/ Validate
    \/ Clean
    \/ Derive
    \/ Split
    \/ CreateModels
    \/ Train
    \/ Evaluate
    \/ Summarize
    \/ Done
    \/ Predict

InferenceSpec == Init /\ [][InferenceNext]_vars

-----------------------------------------------------------------------------
(* A direct caller of the components: two classifiers, one ModelTrainer    *)
(* and one ModelEvaluator, called in any order, at most MaxCalls times.    *)
(* `last` records the call just made: its arguments, the environment's     *)
(* choices, and what the caller got back.                                  *)

\* the classifiers the caller constructs
ApiModels == <<LogisticRegressionModel, RandomForestModel>>

ApiIds == DOMAIN ApiModels

\* the names the caller may register a classifier under instead of its own
ApiAlias == <<"lr_baseline", "rf_tuned">>

OneFeature == <<"tenure">>

TwoFeatures == <<"tenure", "MonthlyCharges">>

ValidInputs ==
    {[X |-> DataFrame(MaxRows, OneFeature), y |-> Series(MaxRows)],
     [X |-> DataFrame(MaxRows, TwoFeatures), y |-> Series(MaxRows)]}

InvalidInputs ==
    {[X |-> DataFrame(0, OneFeature), y |-> Series(MaxRows)],
     [X |-> DataFrame(MaxRows, <<>>), y |-> Series(MaxRows)],
     [X |-> DataFrame(MaxRows, OneFeature), y |-> Series(0)],
     [X |-> DataFrame(MaxRows, OneFeature), y |-> Series(MaxRows - 1)]}

ApiInputs == ValidInputs \cup InvalidInputs

\* inputs of the batch calls
BatchInputs ==
    {[X |-> DataFrame(MaxRows, TwoFeatures), y |-> Series(MaxRows)],
     [X |-> DataFrame(MaxRows, OneFeature), y |-> Series(MaxRows - 1)]}

\* the dict of the ids in S, in id order, under their own names or the aliases
Mapping(S, own_names) ==
    LET ids == SelectSeq([i \in ApiIds |-> i], LAMBDA i : i \in S)
    IN  [j \in 1..Len(ids) |->
            [k |-> IF own_names THEN ApiModels[ids[j]].model_name ELSE ApiAlias[ids[j]],
             v |-> ids[j]]]

ApiMappings == {Mapping(S, b) : S \in SUBSET ApiIds, b \in BOOLEAN}

\* outcomes of one model inside evaluate_multiple_models
ApiBatchOutcomes ==
    {EvalOutcome("predict", 0)} \cup {EvalOutcome("ok", f) : f \in 0..MaxF1}

ApiInit ==
    /\ pc = "IDLE"
    /\ started = <<>>
    /\ completed = <<>>
    /\ ret = "none"
    /\ reran = FALSE
    /\ raw_data = NoData
    /\ cleaned_data = NoData
    /\ engineered_data = NoData
    /\ split = NoData
    /\ models = EmptyDict
    /\ trained_models = EmptyDict
    /\ evaluation_results = EmptyDict
    /\ pipeline_results = EmptyDict
    /\ run_written = {}
    /\ heap = ApiModels
    /\ training_info = EmptyDict
    /\ ev = NewEvaluator
    /\ cleaner = NewDataCleaner
    /\ fe = NewFeatureEngineer
    /\ returned = NoData
    /\ calls = 0
    /\ last = [op |-> "none"]

\* model.train(X, y) called on classifier id
CallTrain ==
    /\ calls < MaxCalls
    /\ calls' = calls + 1
    /\ \E id \in ApiIds, in \in ApiInputs, fit_raises \in BOOLEAN :
        LET r == train(heap[id], in.X, in.y, fit_raises)
        IN  /\ TrainInputError(in.X, in.y) # None => ~fit_raises
            /\ heap' = [heap EXCEPT ![id] = r.model]
            /\ last' = [op |-> "train", id |-> id, X |-> in.X, y |-> in.y,
                        fit_raises |-> fit_raises,
                        was_trained |-> heap[id].is_trained,
                        raised |-> r.raised, error |-> r.error,
                        fit_called |-> r.fit_called]
    /\ UNCHANGED <<data_vars, returned, pipeline_vars, training_info, ev>>

\* model.predict(X) called on classifier id
CallPredict ==
    /\ calls < MaxCalls
    /\ calls' = calls + 1
    /\ \E id \in ApiIds, impl_raises \in BOOLEAN :
        LET r == predict(heap[id], impl_raises)
        IN  last' = [op |-> "predict", id |-> id,
                     was_trained |-> heap[id].is_trained,
                     raised |-> r.raised, error |-> r.error, value |-> r.value]
    /\ UNCHANGED <<data_vars, returned, pipeline_vars, heap, training_info, ev>>

\* model.predict_proba(X) called on classifier id
CallPredictProba ==
    /\ calls < MaxCalls
    /\ calls' = calls + 1
    /\ \E id \in ApiIds, impl_raises \in BOOLEAN :
        LET r == predict_proba(heap[id], impl_raises)
        IN  last' = [op |-> "predict_proba", id |-> id,
                     was_trained |-> heap[id].is_trained,
                     raised |-> r.raised, error |-> r.error, value |-> r.value]
    /\ UNCHANGED <<data_vars, returned, pipeline_vars, heap, training_info, ev>>

\* trainer.train_model(model, X, y)
CallTrainModel ==
    /\ calls < MaxCalls
    /\ calls' = calls + 1
    /\ \E id \in ApiIds, in \in ApiInputs, fit_raises \in BOOLEAN :
        LET r == train_model(training_info, heap, id, in.X, in.y, fit_raises)
        IN  /\ TrainInputError(in.X, in.y) # None => ~fit_raises
            /\ heap' = r.heap
            /\ training_info' = r.training_info
            /\ last' = [op |-> "train_model", id |-> id, X |-> in.X, y |-> in.y,
                        fit_raises |-> fit_raises,
                        was_trained |-> heap[id].is_trained,
                        raised |-> r.raised, error |-> r.error,
                        fit_called |-> r.fit_called, value |-> r.value]
    /\ UNCHANGED <<data_vars, returned, pipeline_vars, ev>>

\* trainer.train_multiple_models(models, X, y)
CallTrainMultiple ==
    /\ calls < MaxCalls
    /\ calls' = calls + 1
    /\ \E ms \in ApiMappings, in \in BatchInputs :
       \E fit_fails \in SUBSET DictKeySet(ms) :
        LET r == train_multiple_models(training_info, heap, ms, in.X, in.y, fit_fails)
        IN  /\ TrainInputError(in.X, in.y) # None => fit_fails = {}
            /\ heap' = r.heap
            /\ training_info' = r.training_info
            /\ last' = [op |-> "train_multiple_models", models |-> ms,
                        X |-> in.X, y |-> in.y, fit_fails |-> fit_fails,
                        raised |-> r.raised, attempted |-> r.attempted,
                        value |-> r.trained_models]
    /\ UNCHANGED <<data_vars, returned, pipeline_vars, ev>>

\* evaluator.evaluate_model(model, X_test, y_test)
CallEvaluateModel ==
    /\ calls < MaxCalls
    /\ calls' = calls + 1
    /\ \E id \in ApiIds, out \in BatchOutcomes :
        LET r == evaluate_model(ev, heap, id, out)
        IN  /\ ev' = r.ev
            /\ last' = [op |-> "evaluate_model", id |-> id, out |-> out,
                        was_trained |-> heap[id].is_trained,
                        raised |-> r.raised, error |-> r.error, value |-> r.value]
    /\ UNCHANGED <<data_vars, returned, pipeline_vars, heap, training_info>>

\* evaluator.evaluate_multiple_models(models, X_test, y_test)
CallEvaluateMultiple ==
    /\ calls < MaxCalls
    /\ calls' = calls + 1
    /\ \E ms \in ApiMappings :
       \E outs \in [DictKeySet(ms) -> ApiBatchOutcomes] :
        LET r == evaluate_multiple_models(ev, heap, ms, outs)
        IN  /\ ev' = r.ev
            /\ last' = [op |-> "evaluate_multiple_models", models |-> ms,
                        outs |-> outs, raised |-> r.raised,
                        attempted |-> r.attempted, value |-> r.all_results]
    /\ UNCHANGED <<data_vars, returned, pipeline_vars, heap, training_info>>

\* the feature matrix of no rows and no columns
EmptyMatrix == DataFrame(0, <<>>)

\* inputs of split_data
SplitInputs == ApiInputs \cup {[X |-> EmptyMatrix, y |-> Series(0)]}

\* trainer.split_data(X, y): stratify_raises is train_test_split refusing the
\* class counts of y
CallSplitData ==
    /\ calls < MaxCalls
    /\ calls' = calls + 1
    /\ \E in \in SplitInputs, stratify_raises \in BOOLEAN :
        LET raises == SplitMustRaise(in.X, in.y) \/ stratify_raises
        IN  last' = [op |-> "split_data", X |-> in.X, y |-> in.y,
                     raised |-> raises,
                     value |-> IF raises THEN NoData ELSE split_data(in.X, in.y)]
    /\ UNCHANGED <<data_vars, returned, pipeline_vars, heap, training_info, ev>>

ApiNext ==
    \/ CallTrain
    \/ CallPredict
    \/ CallPredictProba
    \/ CallTrainModel
    \/ CallTrainMultiple
    \/ CallEvaluateModel
    \/ CallEvaluateMultiple
    \/ CallSplitData

ApiSpec == ApiInit /\ [][ApiNext]_vars

-----------------------------------------------------------------------------
(* Best-model selection as a function of a results mapping: the caller      *)
(* hands any mapping of up to three names to Metrics to                     *)
(* ModelTrainer.get_best_model or to ModelEvaluator._identify_best_model.   *)

ResultNames == {"A", "B", "C"}

ResultEntries == {[k |-> n, v |-> Metrics(f)] : n \in ResultNames, f \in 0..MaxF1}

\* every insertion-ordered mapping over ResultNames
ResultDicts ==
    {d \in UNION {[1..n -> ResultEntries] : n \in 0..Cardinality(ResultNames)} :
        \A i, j \in 1..Len(d) : d[i].k = d[j].k => i = j}

\* trainer.get_best_model(models, evaluation_results)
CallGetBestModel ==
    /\ \E results \in ResultDicts :
        last' = [op |-> "get_best_model", results |-> results,
                 value |-> get_best_model(results)]
    /\ UNCHANGED <<data_vars, returned, pipeline_vars, heap, training_info, ev, calls>>

\* evaluator._identify_best_model(results)
CallIdentifyBestModel ==
    /\ \E results \in ResultDicts :
        /\ ev' = [ev EXCEPT !.best_model = identify_best_model(results)]
        /\ last' = [op |-> "_identify_best_model", results |-> results,
                    value |-> identify_best_model(results)]
    /\ UNCHANGED <<data_vars, returned, pipeline_vars, heap, training_info, calls>>

SelectNext ==
    \/ CallGetBestModel
    \/ CallIdentifyBestModel

SelectSpec == ApiInit /\ [][SelectNext]_vars

-----------------------------------------------------------------------------
(* A direct caller of the two data components: clean_data on a dataset of  *)
(* up to MaxFrameRows rows, clean_data again on what it returned, and       *)
(* engineer_features on a cleaned dataset.                                 *)

\* rows of the datasets handed to clean_data
MaxFrameRows == 2

\* the cells a row of a raw dataset may hold
RawRows ==
    {[c \in ValuedColumns \cup {"index"} |->
        IF c = "index" THEN Num(0)
        ELSE IF c = "SeniorCitizen" THEN sc
        ELSE IF c = "Partner" THEN pa
        ELSE IF c = "tenure" THEN te
        ELSE IF c = "TotalCharges" THEN tc
        ELSE Str("Yes")] :
        sc \in {NaN, Num(1)},
        pa \in {NaN, Str("No"), Str("Yes ")},
        te \in {NaN, Num(0), Num(2)},
        tc \in {NaN, Str(" "), Str("2"), Num(2)}}

\* read_csv gives TotalCharges numbers when every field parses, and strings
\* (with at least one that does not parse) otherwise
WellTyped(cells) ==
    (\E i \in 1..Len(cells) : IsStr(cells[i]["TotalCharges"])) =>
        /\ \A i \in 1..Len(cells) : ~IsNum(cells[i]["TotalCharges"])
        /\ \E i \in 1..Len(cells) : cells[i]["TotalCharges"] = Str(" ")

\* the datasets with every column, over all cell values
CellFrames ==
    {Frame(AllColumns, [i \in 1..Len(cells) |-> [cells[i] EXCEPT !["index"] = Num(i - 1)]]) :
        cells \in {c \in UNION {[1..n -> RawRows] : n \in 0..MaxFrameRows} : WellTyped(c)}}

\* the columns validate_data does not require
optional_columns == {c \in ColumnSet(Frame(AllColumns, <<>>)) : c \notin required_columns}

\* the datasets that lack one optional column
ColumnFrames ==
    {Dataset(Without(c), n, 0, FALSE) : c \in optional_columns, n \in {0, MaxFrameRows}}

\* the datasets with every column, over the values of the churn indicator
ChurnFrames ==
    {Frame(AllColumns,
           [i \in 1..Len(churn) |->
               [SourceRow(1, AllColumns, FALSE)
                   EXCEPT !["index"] = Num(i - 1), !["Churn"] = churn[i]]]) :
        churn \in UNION {[1..n -> {NaN, Str("Yes"), Str("Yes "), Str("No")}] :
                            n \in 0..MaxFrameRows}}

\* the datasets with further columns: two categorical ones, a column of text
\* and a column of numbers that the pipeline knows nothing about
ExtraFrames ==
    {Dataset(AllColumns \o SelectSeq(<<"gender", "PaymentMethod", "Notes", "Score">>,
                                     LAMBDA c : c \in S),
             MaxFrameRows, 0, FALSE) :
        S \in SUBSET {"gender", "PaymentMethod", "Notes", "Score"}}

Frames == CellFrames \cup ColumnFrames \cup ChurnFrames \cup ExtraFrames

\* what a clean_data call on data leaves in `last` and in the cleaner
CleanCall(data, pass) ==
    /\ last' = [op |-> "clean_data", data |-> data, pass |-> pass,
                raised |-> CleanRaises(data),
                value |-> IF CleanRaises(data) THEN NoData ELSE clean_data(data)]
    /\ cleaner' = IF CleanRaises(data) THEN cleaner
                  ELSE [cleaning_report |-> CleaningReport(data)]

\* cleaner.clean_data(data) on a raw dataset
CallCleanData ==
    /\ last.op = "none"
    /\ \E data \in Frames : CleanCall(data, 1)
    /\ UNCHANGED <<pipeline_vars, heap, training_info, ev, fe, returned, calls>>

\* cleaner.clean_data on the dataset the first call returned
CallCleanAgain ==
    /\ last.op = "clean_data"
    /\ last.pass = 1
    /\ ~last.raised
    /\ CleanCall(last.value, 2)
    /\ UNCHANGED <<pipeline_vars, heap, training_info, ev, fe, returned, calls>>

\* feature_engineer.engineer_features on a cleaned dataset
CallEngineerFeatures ==
    /\ last.op = "clean_data"
    /\ ~last.raised
    /\ fe' = EngineerAfter(fe, last.value)
    /\ last' = [op |-> "engineer_features", data |-> last.value,
                raised |-> EngineerRaises(last.value),
                value |-> IF EngineerRaises(last.value) THEN NoData
                          ELSE engineer_features(last.value)]
    /\ UNCHANGED <<pipeline_vars, heap, training_info, ev, cleaner, returned, calls>>

\* MLPipeline._prepare_data on the cleaned data and the feature matrix the
\* two calls before it produced: the Churn check, the label vector, split_data
CallPrepareData ==
    /\ last.op = "engineer_features"
    /\ ~last.raised
    /\ \E stratify_raises \in BOOLEAN :
        LET X == last.value
            y == LabelVector(last.data)
            raises == \/ "Churn" \notin ColumnSet(last.data)
                      \/ SplitMustRaise(X, y)
                      \/ stratify_raises
        IN  /\ last' = [op |-> "prepare_data", data |-> last.data, X |-> X,
                        y |-> IF "Churn" \in ColumnSet(last.data) THEN y ELSE NoData,
                        raised |-> raises]
            /\ split' = IF raises THEN split ELSE split_data(X, y)
    /\ UNCHANGED <<pc, started, completed, ret, reran, raw_data, cleaned_data,
                   engineered_data, models, trained_models, evaluation_results,
                   pipeline_results, run_written, heap, training_info, ev,
                   cleaner, fe, returned, calls>>

DataNext ==
    \/ CallCleanData
    \/ CallCleanAgain
    \/ CallEngineerFeatures
    \/ CallPrepareData

DataSpec == ApiInit /\ [][DataNext]_vars

-----------------------------------------------------------------------------
(* One categorical column through clean_data.                              *)

\* the columns that hold a 'No ... service' value in the generated dataset
ServiceDependentColumns == service_columns \cup {"MultipleLines"}

\* the values a service column may hold in a file
ServiceValues ==
    {Str("Yes"), Str("No"), Str("No internet service"), Str("No phone service"),
     Str("No phone service ")}

\* cleaner.clean_data on a dataset of the one column col
CallCleanColumn ==
    /\ last.op = "none"
    /\ \E col \in stripped_columns \cup {"customerID"},
          series \in UNION {[1..n -> ServiceValues] : n \in 0..MaxFrameRows} :
        /\ last' = [op |-> "clean_column", col |-> col, data |-> series,
                    raised |-> FALSE, value |-> CleanSeries(col, series)]
        /\ cleaner' = [cleaning_report |->
                          [initial_shape |-> <<Len(series), 1>>,
                           final_shape |-> <<Len(CleanSeries(col, series)), 1>>,
                           initial_missing |-> 0,
                           final_missing |-> 0,
                           rows_removed |-> Len(series) - Len(CleanSeries(col, series)),
                           columns_removed |-> 0]]
    /\ UNCHANGED <<pipeline_vars, heap, training_info, ev, fe, returned, calls>>

ColumnNext == CallCleanColumn

ColumnSpec == ApiInit /\ [][ColumnNext]_vars

-----------------------------------------------------------------------------
(* Properties of MLPipeline.run (checked under Spec).                       *)

Phases == {PhaseOrder[i] : i \in 1..Len(PhaseOrder)}

FatalPhases == {"LOAD", "VALIDATE", "CLEAN", "DERIVE_FEATURES", "SPLIT"}

\* the value pipeline_results holds under key, None when the key is absent
Result(key) == DictGetOr(pipeline_results, key, None)

(* C1: in every run the phases start in the order LOAD, VALIDATE, CLEAN,    *)
(* DERIVE_FEATURES, SPLIT, CREATE_MODELS, TRAIN, EVALUATE, SUMMARIZE, DONE; *)
(* a phase starts only when every phase before it has completed without    *)
(* raising, and run() returns a result only after all ten have completed.   *)
PhasesRunInOrder ==
    /\ Len(started) <= Len(PhaseOrder)
    /\ \A i \in 1..Len(started) : started[i] = PhaseOrder[i]
    /\ Len(completed) <= Len(started)
    /\ Len(started) <= Len(completed) + 1
    /\ \A i \in 1..Len(completed) : completed[i] = started[i]
    /\ pc \in Phases => (completed = started /\ Len(completed) = PhaseIndex(pc) - 1)
    /\ pc = "RAISED" => Len(started) = Len(completed) + 1
    /\ pc = "RETURNED" => completed = PhaseOrder
    /\ ret = "pipeline_results" => (pc = "RETURNED" /\ completed = PhaseOrder)

\* a run that went through all ten phases and returned
WitnessPhasesRunInOrder ==
    /\ pc = "RETURNED"
    /\ ret = "pipeline_results"
    /\ started = PhaseOrder

(* C2: when one of LOAD, VALIDATE, CLEAN, DERIVE_FEATURES, SPLIT raises,    *)
(* run() raises at once, no later phase starts, and the pipeline holds no   *)
(* result of the aborted run: get_results() has no entry written by it.     *)
FatalAbortLeavesNoResult ==
    pc = "RAISED" =>
        /\ ret = "raised"
        /\ Len(started) = Len(completed) + 1
        /\ started[Len(started)] \in FatalPhases
        /\ run_written = {}

(* C8: when no model survives TRAIN or EVALUATE the run still goes through  *)
(* EVALUATE and SUMMARIZE and returns a result whose best model is none and *)
(* whose best-model metrics, comparison table and feature importance are    *)
(* empty; run() raises in none of TRAIN, EVALUATE, SUMMARIZE.               *)
EmptyModelSetStillSummarized ==
    /\ pc = "RAISED" => started[Len(started)] \in FatalPhases
    /\ (pc = "RETURNED" /\ evaluation_results = EmptyDict) =>
        /\ ret = "pipeline_results"
        /\ Result("best_model") = None
        /\ Result("best_model_metrics") = EmptyDict
        /\ Result("model_comparison") = <<>>
        /\ Result("feature_importance") = EmptyDict

-----------------------------------------------------------------------------
(* Properties of the components under a direct caller (checked under        *)
(* ApiSpec).                                                                *)

\* the keys of the last batch whose training succeeds: valid input and a fit
\* that does not raise
TrainSucceeds(k) ==
    TrainInputError(last.X, last.y) = None /\ k \notin last.fit_fails

(* C3: train_multiple_models never raises, attempts every model of the      *)
(* mapping in order whatever failed before, and returns exactly the models  *)
(* whose training succeeded, under their submitted names.                   *)
BatchTrainingIsolatesFailures ==
    last.op = "train_multiple_models" =>
        /\ ~last.raised
        /\ last.attempted = DictKeys(last.models)
        /\ DictKeySet(last.value) = {k \in DictKeySet(last.models) : TrainSucceeds(k)}
        /\ \A k \in DictKeySet(last.value) :
              DictGet(last.value, k) = DictGet(last.models, k)

\* a batch of two whose first model fails and whose second is returned
WitnessBatchTrainingIsolatesFailures ==
    /\ last.op = "train_multiple_models"
    /\ Len(last.models) = 2
    /\ last.models[1].k \in last.fit_fails
    /\ DictKeySet(last.value) = {last.models[2].k}

(* C4: after train_multiple_models, get_training_info() holds an entry for  *)
(* every submitted name, with success = true exactly for the names in the   *)
(* returned mapping.                                                        *)
TrainingInfoCoversSubmittedNames ==
    last.op = "train_multiple_models" =>
        \A k \in DictKeySet(last.models) :
            /\ DictHas(get_training_info, k)
            /\ DictGet(get_training_info, k).success <=> k \in DictKeySet(last.value)

(* C5: when fit raises inside train_model the caller gets the exception,    *)
(* never a model, and at that moment training_info already holds the        *)
(* model's entry with success = false and the error text.                   *)
FitFailureRecordedThenReraised ==
    (last.op = "train_model" /\ last.fit_called /\ last.fit_raises) =>
        /\ last.raised
        /\ last.error = "fit"
        /\ last.value = NoObject
        /\ DictHas(training_info, heap[last.id].model_name)
        /\ DictGet(training_info, heap[last.id].model_name) = TrainingFailure("fit")

\* a train_model call whose fit raised
WitnessFitFailureRecordedThenReraised ==
    /\ last.op = "train_model"
    /\ last.fit_called
    /\ last.fit_raises
    /\ last.raised

\* the keys of the last batch whose evaluation succeeds: a trained model with
\* an estimator, and a library that raises at no stage
EvalSucceeds(k) ==
    /\ heap[DictGet(last.models, k)].is_trained
    /\ heap[DictGet(last.models, k)].has_model
    /\ last.outs[k].stage = "ok"

(* C6: evaluate_multiple_models never raises, evaluates every model of the  *)
(* mapping in order whatever failed before, and returns exactly the models  *)
(* whose evaluation succeeded, under their submitted names.                 *)
BatchEvaluationIsolatesFailures ==
    last.op = "evaluate_multiple_models" =>
        /\ ~last.raised
        /\ last.attempted = DictKeys(last.models)
        /\ DictKeySet(last.value) = {k \in DictKeySet(last.models) : EvalSucceeds(k)}
        /\ \A k \in DictKeySet(last.value) :
              DictGet(last.value, k) = Metrics(last.outs[k].f1)

\* a batch of two trained models: the first one's predict raises, the second
\* is evaluated
WitnessBatchEvaluationIsolatesFailures ==
    /\ last.op = "evaluate_multiple_models"
    /\ Len(last.models) = 2
    /\ heap[last.models[1].v].is_trained
    /\ last.outs[last.models[1].k].stage = "predict"
    /\ DictKeySet(last.value) = {last.models[2].k}

(* C7: best-model selection gives none for the empty mapping; otherwise the *)
(* name with the greatest F1-Score, and among several names with that score *)
(* the first in insertion order.                                            *)
BestIsFirstWithGreatestF1 ==
    last.op \in {"get_best_model", "_identify_best_model"} =>
        LET r == last.results
        IN  /\ Len(r) = 0 => last.value = None
            /\ Len(r) > 0 =>
                \E i \in 1..Len(r) :
                    /\ last.value = r[i].k
                    /\ \A j \in 1..Len(r) : r[j].v.f1_score <= r[i].v.f1_score
                    /\ \A j \in 1..(i - 1) : r[j].v.f1_score < r[i].v.f1_score
            /\ last.op = "_identify_best_model" => ev.best_model = last.value

\* A below B, C submitted after B with B's score: B is selected
WitnessBestIsFirstWithGreatestF1 ==
    /\ last.op = "_identify_best_model"
    /\ last.results = <<[k |-> "A", v |-> Metrics(0)], [k |-> "B", v |-> Metrics(1)],
                        [k |-> "C", v |-> Metrics(1)]>>
    /\ last.value = "B"

\* the classifiers the last call trained successfully
TrainedByLast(l) ==
    IF l.op \in {"train", "train_model"} THEN (IF l.raised THEN {} ELSE {l.id})
    ELSE IF l.op = "train_multiple_models" THEN {l.value[i].v : i \in 1..Len(l.value)}
    ELSE {}

\* predict and predict_proba fail on an untrained model; metrics are computed
\* for trained models only
UntrainedNeverPredicts ==
    /\ (last.op \in {"predict", "predict_proba"} /\ ~last.was_trained) =>
            (last.raised /\ last.value = None)
    /\ (last.op = "evaluate_model" /\ ~last.raised) => last.was_trained
    /\ last.op = "evaluate_multiple_models" =>
            \A i \in 1..Len(last.models) :
                DictHas(last.value, last.models[i].k) => heap[last.models[i].v].is_trained

\* the trained flag goes from unset to set only in a train call on that
\* classifier that completed
TrainedFlagSetByTrainOnly ==
    \A id \in DOMAIN heap :
        (~heap[id].is_trained /\ heap'[id].is_trained) => id \in TrainedByLast(last')

(* C9: predict and predict_proba on a model whose trained flag is unset     *)
(* fail and give no prediction; the flag is set only by a train call that   *)
(* completed; evaluate_model computes Metrics only for a model whose flag   *)
(* is set.                                                                  *)
TrainedFlagGatesPrediction ==
    []UntrainedNeverPredicts /\ [][TrainedFlagSetByTrainOnly]_vars

\* predict called on a classifier that a failed train left untrained
WitnessTrainedFlagGatesPrediction ==
    /\ last.op = "predict"
    /\ ~last.was_trained
    /\ heap[last.id].feature_names # <<>>
    /\ last.raised

(* C10: train_model with an empty X, an empty y, or X and y of different    *)
(* row counts fails with the invalid-input error without calling fit and    *)
(* without changing the trained flag; with valid inputs and a fit that does *)
(* not raise it fits the classifier, sets the flag and returns that model.  *)
TrainModelChecksInputs ==
    last.op = "train_model" =>
        /\ (IsEmpty(last.X) \/ IsEmpty(last.y) \/ last.X.rows # last.y.rows) =>
              /\ last.raised
              /\ last.error \in {"empty", "mismatch"}
              /\ ~last.fit_called
              /\ heap[last.id].is_trained = last.was_trained
        /\ (~IsEmpty(last.X) /\ ~IsEmpty(last.y) /\ last.X.rows = last.y.rows
            /\ ~last.fit_raises) =>
              /\ ~last.raised
              /\ last.fit_called
              /\ heap[last.id].is_trained
              /\ heap[last.id].feature_names = last.X.columns
              /\ last.value = last.id

\* train_model rejected X and y of different, non-zero row counts
WitnessTrainModelChecksInputs ==
    /\ last.op = "train_model"
    /\ ~IsEmpty(last.X)
    /\ ~IsEmpty(last.y)
    /\ last.X.rows # last.y.rows
    /\ last.raised
    /\ ~heap[last.id].is_trained

(* C11: split_data with an empty feature matrix, an empty label vector, or *)
(* a matrix and a label vector of different row counts raises and gives no *)
(* split; the matrix of no rows and no columns is among the rejected.      *)
SplitDataChecksInputs ==
    (last.op = "split_data"
     /\ (IsEmpty(last.X) \/ IsEmpty(last.y) \/ last.X.rows # last.y.rows)) =>
        /\ last.raised
        /\ last.value = NoData

-----------------------------------------------------------------------------
(* Properties of the data components (checked under DataSpec).              *)

\* the columns of data that the imputation policy covers
CoveredColumns(data) == {"tenure", "TotalCharges", "Partner"} \cap ColumnSet(data)

(* C12: cleaning a dataset that clean_data returned gives the same dataset, *)
(* row for row and column for column, and the report of that second pass    *)
(* shows no row removed and no missing value before or after.               *)
CleaningIsIdempotent ==
    (last.op = "clean_data" /\ last.pass = 2) =>
        /\ ~last.raised
        /\ last.value = last.data
        /\ cleaner.cleaning_report.rows_removed = 0
        /\ cleaner.cleaning_report.initial_missing = 0
        /\ cleaner.cleaning_report.final_missing = 0

(* C13: in the dataset clean_data returns, no present column covered by the *)
(* imputation policy holds a missing value.                                 *)
CoveredColumnsHaveNoMissing ==
    (last.op = "clean_data" /\ ~last.raised) =>
        \A col \in CoveredColumns(last.value) : ~AnyNull(last.value, col)

(* C14: clean_data raises on no dataset, whichever columns are absent and   *)
(* whatever the present ones hold; it returns a dataset and its report.     *)
CleanDataNeverRaises ==
    last.op = "clean_data" =>
        /\ ~last.raised
        /\ last.value # NoData
        /\ cleaner.cleaning_report # EmptyDict

(* C15: the feature matrix engineer_features returns has one row per row of *)
(* its input, in the same order: row i carries the index label of input row *)
(* i and the features derived from that row.                                *)
FeatureRowsFollowInputRows ==
    (last.op = "engineer_features" /\ ~last.raised) =>
        /\ last.value.rows = last.data.rows
        /\ \A i \in 1..last.data.rows :
              /\ last.value.cells[i].index = last.data.cells[i]["index"]
              /\ last.value.cells[i].tenure.raw = last.data.cells[i]["tenure"]
              /\ last.value.cells[i].feature_has_family.raw = HasFamily(last.data.cells[i])
              /\ last.value.cells[i].Partner_encoded =
                    Encode(DictGet(fe.label_encoders, "Partner"), last.data.cells[i]["Partner"])

\* a feature matrix of two rows with different Partner codes
WitnessFeatureRowsFollowInputRows ==
    /\ last.op = "engineer_features"
    /\ ~last.raised
    /\ last.value.rows = 2
    /\ last.value.cells[1].Partner_encoded # last.value.cells[2].Partner_encoded
    /\ last.value.cells[1].index = Num(0)

(* C16: engineer_features raises on no non-empty dataset that has the       *)
(* required columns and lacks an optional one; it returns a feature matrix. *)
MissingOptionalColumnIsTolerated ==
    (/\ last.op = "engineer_features"
     /\ last.data.rows > 0
     /\ required_columns \subseteq ColumnSet(last.data)
     /\ optional_columns \ ColumnSet(last.data) # {}) =>
        /\ ~last.raised
        /\ last.value # NoData


(* C17: after a completed run, a MLPipeline.predict call that returns      *)
(* leaves the feature engineer's label maps and scaler statistics equal to  *)
(* those fitted on the run's cleaned data.                                  *)
PredictReusesFittedState ==
    (pc = "RETURNED" /\ last.op = "predict" /\ ~last.raised) =>
        /\ fe.label_encoders = EncodeLoop(EmptyDict, cleaned_data, 1)
        /\ fe.scaler = FitScaler(cleaned_data)

(* C18: once run() has returned, the content of the result it returned      *)
(* never changes: what a reader finds in it stays what it was at return.    *)
ReturnedResultIsImmutable ==
    returned # NoData =>
        ResultContent(pipeline_results, training_info, ev) = returned

\* the run in progress has loaded a dataset that lacks a required column
LoadedWithoutRequiredColumn ==
    /\ Len(completed) >= 1
    /\ ~(required_columns \subseteq ColumnSet(raw_data))

(* C19: when the loaded dataset lacks a required column, validate_data      *)
(* returns false and the run raises in VALIDATE: LOAD is the only phase     *)
(* that completed, VALIDATE the last that started, and no step taken from   *)
(* then on changes the cleaner, the feature engineer, the trainer, the      *)
(* evaluator, the classifiers or the results.                               *)
MissingRequiredColumnFailsInValidate ==
    /\ [](LoadedWithoutRequiredColumn =>
            /\ ~validate_data(raw_data)
            /\ completed = <<"LOAD">>
            /\ \/ pc = "VALIDATE" /\ started = <<"LOAD">> /\ ret = "pending"
               \/ pc = "RAISED" /\ started = <<"LOAD", "VALIDATE">> /\ ret = "raised")
    /\ [][LoadedWithoutRequiredColumn =>
            UNCHANGED <<cleaner, fe, training_info, ev, heap, cleaned_data,
                        engineered_data, split, models, trained_models,
                        evaluation_results, pipeline_results, run_written>>]_vars

\* a second run on a pipeline whose first run returned fails in VALIDATE
WitnessMissingRequiredColumnFailsInValidate ==
    /\ reran
    /\ returned # NoData
    /\ pc = "RAISED"
    /\ started = <<"LOAD", "VALIDATE">>
    /\ "Churn" \notin ColumnSet(raw_data)
    /\ cleaner # NewDataCleaner

(* C20: when CREATE_MODELS has completed, models holds exactly three         *)
(* classifiers under the names LogisticRegression, RandomForest and          *)
(* GradientBoosting in that order; each is a new object of its own, carries  *)
(* the name it is registered under and is untrained.                         *)
CreateModelsMakesThreeUntrained ==
    pc = "TRAIN" =>
        /\ DictKeys(models) = <<"LogisticRegression", "RandomForest", "GradientBoosting">>
        /\ \A i \in 1..Len(models) :
            /\ models[i].v \in 1..Len(heap)
            /\ heap[models[i].v].model_name = models[i].k
            /\ heap[models[i].v].has_model
            /\ ~heap[models[i].v].is_trained
            /\ heap[models[i].v].feature_names = <<>>
            /\ \A j \in 1..Len(models) : i # j => models[i].v # models[j].v
            /\ \A j \in 1..Len(trained_models) : models[i].v # trained_models[j].v

\* the second run has created its classifiers beside the first run's trained ones
WitnessCreateModelsMakesThreeUntrained ==
    /\ pc = "TRAIN"
    /\ reran
    /\ Len(heap) = 6
    /\ Len(trained_models) = 3
    /\ heap[1].is_trained

(* C21: the label vector of SPLIT has one entry per row of the feature      *)
(* matrix, under the same index label and in the same order; the entry is 1 *)
(* exactly when the row's cleaned churn indicator is "Yes" and 0 otherwise, *)
(* and a churn value missing in the raw data is cleaned to a value that is  *)
(* not "Yes".                                                               *)
LabelsFollowCleanedChurn ==
    /\ (last.op = "prepare_data" /\ "Churn" \in ColumnSet(last.data)) =>
          /\ last.y.rows = last.X.rows
          /\ \A i \in 1..last.X.rows :
                /\ last.y.cells[i].index = last.X.cells[i].index
                /\ last.y.cells[i].index = last.data.cells[i]["index"]
                /\ last.y.cells[i].value \in {0, 1}
                /\ last.y.cells[i].value = 1 <=> last.data.cells[i]["Churn"] = Str("Yes")
    /\ (last.op = "clean_data" /\ ~last.raised /\ "Churn" \in ColumnSet(last.data)) =>
          \A i \in 1..last.data.rows, j \in 1..last.value.rows :
              (/\ last.value.cells[j]["index"] = last.data.cells[i]["index"]
               /\ IsNaN(last.data.cells[i]["Churn"])) =>
                  last.value.cells[j]["Churn"] # Str("Yes")

\* labels 1, 0 for a cleaned "Yes" (raw "Yes ") and a churn missing in the raw data
WitnessLabelsFollowCleanedChurn ==
    /\ last.op = "prepare_data"
    /\ ~last.raised
    /\ last.y.rows = 2
    /\ last.y.cells[1].value = 1
    /\ last.y.cells[2].value = 0
    /\ last.data.cells[2]["Churn"] = Str("nan")

(* C22: after clean_data no value "No internet service" or "No phone        *)
(* service" is left in a service-dependent column.                          *)
NoServiceEncodingSurvives ==
    (last.op = "clean_column" /\ last.col \in ServiceDependentColumns) =>
        \A i \in 1..Len(last.value) :
            last.value[i] \notin {Str("No internet service"), Str("No phone service")}

(* C23: clean_data on a dataset with a TotalCharges column, whose other     *)
(* columns give no step a reason to raise, returns a dataset in which every *)
(* total charge that was an unparseable string is 0 and every total charge  *)
(* that was missing holds the value the imputation step filled in: the      *)
(* median of the column when it has one, and in no case a missing value.    *)
TotalChargesUnparseableIsZero ==
    (/\ last.op = "clean_data"
     /\ last.pass = 1
     /\ "TotalCharges" \in ColumnSet(last.data)
     /\ ~AnyNull(last.data, "SeniorCitizen")
     /\ ~ModeRaises(last.data, "Partner")) =>
        /\ ~last.raised
        /\ \A i \in 1..last.data.rows, j \in 1..last.value.rows :
              last.value.cells[j]["index"] = last.data.cells[i]["index"] =>
                  /\ last.data.cells[i]["TotalCharges"] = Str(" ") =>
                        last.value.cells[j]["TotalCharges"] = Num(0)
                  /\ IsNaN(last.data.cells[i]["TotalCharges"]) =>
                        /\ ~IsNaN(last.value.cells[j]["TotalCharges"])
                        /\ Numbers(Column(last.data, "TotalCharges")) # <<>> =>
                              last.value.cells[j]["TotalCharges"] =
                                  Median(Column(last.data, "TotalCharges"))

(* C24: engineer_features on a cleaned dataset with rows and with the       *)
(* columns the derivation reads does not raise, whatever other columns the  *)
(* dataset has; the feature matrix holds neither Churn nor customerID nor a *)
(* raw categorical column, and each of its columns is of a numeric dtype.   *)
FeatureMatrixIsNumericOnly ==
    (last.op = "engineer_features") =>
        /\ (last.data.rows > 0 /\ derive_reads \subseteq ColumnSet(last.data)) =>
              ~last.raised
        /\ ~last.raised =>
              \A i \in 1..Len(last.value.columns) :
                  /\ last.value.columns[i] \notin {"Churn", "customerID"}
                  /\ last.value.columns[i] \notin categorical_columns
                  /\ \E j \in 1..Len(EngineeredColumns(last.data)) :
                        /\ EngineeredColumns(last.data)[j].name = last.value.columns[i]
                        /\ EngineeredColumns(last.data)[j].dtype \in
                              {"int64", "float64", "int32", "float32"}

\* a dataset with raw PaymentMethod and a text column: both are left out,
\* PaymentMethod_encoded and the unknown numeric column are kept
WitnessFeatureMatrixIsNumericOnly ==
    /\ last.op = "engineer_features"
    /\ ~last.raised
    /\ {"PaymentMethod", "Notes", "Score"} \subseteq ColumnSet(last.data)
    /\ {"PaymentMethod_encoded", "Score"} \subseteq ColumnSet(last.value)
    /\ "Notes" \notin ColumnSet(last.value)

(* C25: when SUMMARIZE has completed, the model-comparison table of the     *)
(* result has exactly one row per model of this run's evaluation results    *)
(* and no other row.                                                        *)
ComparisonHasOneRowPerEvaluatedModel ==
    (Len(completed) >= 9 /\ completed[9] = "SUMMARIZE") =>
        /\ Len(Result("model_comparison")) = Len(evaluation_results)
        /\ {Result("model_comparison")[i].Model :
                i \in 1..Len(Result("model_comparison"))} = DictKeySet(evaluation_results)

(* C26: when EVALUATE has completed, every model whose training raised has  *)
(* a TrainingInfo entry with success = false, and every trained model whose *)
(* evaluation raised has an entry of its own in the evaluation report that  *)
(* records the failure.                                                     *)
ModelFailuresAreRecorded ==
    (Len(completed) >= 8 /\ completed[8] = "EVALUATE") =>
        /\ \A k \in DictKeySet(models) \ DictKeySet(trained_models) :
              /\ DictHas(training_info, k)
              /\ ~DictGet(training_info, k).success
        /\ \A k \in DictKeySet(trained_models) \ DictKeySet(evaluation_results) :
              /\ DictHas(ev.evaluation_results, k)
              /\ "error" \in DOMAIN DictGet(ev.evaluation_results, k)

(* C27: in the result run() returned, the evaluated models (the entries of  *)
(* the evaluation report) are among the trained models (the TrainingInfo    *)
(* entries with success = true) and these among the created models; a best  *)
(* model other than none is an evaluated model; best_model_metrics is the   *)
(* report's entry of the best model, and empty when the best model is none. *)
ModelSetsAreNested ==
    pc = "RETURNED" =>
        LET report == DictGet(returned, "evaluation_report").evaluation_results
            info == DictGet(returned, "training_info")
            best == DictGet(returned, "best_model")
        IN  /\ \A k \in DictKeySet(report) :
                  DictHas(info, k) /\ DictGet(info, k).success
            /\ DictKeySet(info) \subseteq DictKeySet(models)
            /\ best # None =>
                  /\ DictHas(report, best)
                  /\ DictGet(returned, "best_model_metrics") = DictGet(report, best)
            /\ best = None => DictGet(returned, "best_model_metrics") = EmptyDict

(* C28: a train call that raises leaves the classifier as it was before the *)
(* call: the trained flag and the recorded feature names are unchanged.     *)
FailedTrainLeavesModelUnchanged ==
    [][(calls' = calls + 1 /\ last'.op = "train" /\ last'.raised) =>
          /\ heap'[last'.id].is_trained = heap[last'.id].is_trained
          /\ heap'[last'.id].feature_names = heap[last'.id].feature_names]_vars

(* C29: the report of get_evaluation_report is self-consistent after every  *)
(* sequence of evaluator calls: best_model is none exactly when             *)
(* evaluation_results is empty; otherwise it is a key of evaluation_results *)
(* with the greatest F1 score among its entries; model_count is the number  *)
(* of entries.                                                              *)
EvaluationReportIsSelfConsistent ==
    LET report == get_evaluation_report(ev)
        results == ev.evaluation_results
    IN  /\ report.best_model = None <=> Len(results) = 0
        /\ report.best_model # None =>
              /\ DictHas(results, report.best_model)
              /\ \A i \in 1..Len(results) :
                    results[i].v.f1_score <= DictGet(results, report.best_model).f1_score
        /\ report.model_count = Len(results)

\* run() is not executing and the pipeline has no best model: no run has
\* returned yet, the last run raised, or the last run selected none
NoBestModelExists ==
    \/ pc = "IDLE"
    \/ pc = "RAISED"
    \/ pc = "RETURNED" /\ Result("best_model") = None

(* C30: while run() is not executing, get_best_model returns none exactly   *)
(* when no best model exists; a predict call made then raises before the    *)
(* cleaner and the feature engineer are called and changes neither the      *)
(* pipeline nor the two.                                                    *)
PredictWithoutBestModelFails ==
    /\ [](pc \in {"IDLE", "RAISED", "RETURNED"} =>
            (NoBestModelExists <=> pipeline_get_best_model = NoObject))
    /\ [][(calls' = calls + 1 /\ NoBestModelExists) =>
            /\ last'.op = "predict"
            /\ last'.raised
            /\ last'.error = "no_model"
            /\ UNCHANGED <<pipeline_vars, cleaner, fe, heap, training_info, ev>>]_vars

=========================================================================
